---- MODULE Spec2Model ----
(***************************************************************************)
(* Model of the Stripe tool server of src/src/main.py: the call_tool       *)
(* dispatcher with its three handler groups, the worker threads that run   *)
(* the blocking Stripe calls (asyncio.to_thread), and the in-memory audit  *)
(* ledger of StripeManager.                                                *)
(*                                                                         *)
(* Every HTTP request is a task of the event loop.  A task runs without    *)
(* interruption until it awaits the worker thread that performs its Stripe *)
(* call; it is resumed, in a later step of the loop, once that thread has  *)
(* returned or raised.                                                     *)
(***************************************************************************)
EXTENDS Integers, Sequences, FiniteSets, TLC

\* ------------------------------------------------------------------ bounds
MaxReqs == 2        \* number of call_tool requests in one run
MaxTime == 2        \* distinct readings of the UTC clock
PoolSize == 1       \* worker threads of the executor behind asyncio.to_thread

Reqs == 1..MaxReqs
Timestamps == 1..MaxTime

\* ------------------------------------------------------------------ inputs
\* Python's None (distinct from every string the inputs below draw).
None == "None"
\* The empty dict literal {} of args.get("metadata", {}).
EmptyDict == <<>>

\* Names the concurrent requests draw from: the six operations the handlers
\* implement, a name with no known prefix, a name with a known prefix that
\* is no operation.
Names ==
    { "customer_create", "customer_retrieve", "customer_update",
      "payment_intent_create", "charge_list", "refund_create",
      "foo_bar", "customer_delete" }

\* Names the single request of SpecOneCall draws from.
AllNames ==
    Names \cup { "payment_", "refund_list", "customer_", "charge_create",
                 "Customer_create", "" }

\* The keys the handlers read.
RequiredKeys ==
    { "email", "customer_id", "update_fields", "amount", "currency",
      "charge_id" }
OptionalKeys == { "metadata", "payment_method_types", "customer" }
Keys == RequiredKeys \cup OptionalKeys

\* The value a caller sends under each key.
ArgValue(k) ==
    CASE k = "email"                -> "ann@example.com"
      [] k = "customer_id"          -> "cus_1"
      [] k = "update_fields"        -> [name |-> "Bob"]
      [] k = "amount"               -> "500"
      [] k = "currency"             -> "usd"
      [] k = "charge_id"            -> "ch_1"
      [] k = "metadata"             -> [order |-> "42"]
      [] k = "payment_method_types" -> <<"card", "us_bank_account">>
      [] k = "customer"             -> "cus_2"

ArgsOver(ks) == [k \in ks |-> ArgValue(k)]

\* Arguments of the concurrent requests: the empty mapping, and the mapping
\* that holds every required key and no optional one.
Arguments == { ArgsOver({}), ArgsOver(RequiredKeys) }

\* Arguments of the single request of SpecOneCall: every subset of the keys.
AllArguments == { ArgsOver(ks) : ks \in SUBSET Keys }

\* Values the provider puts in the `created` field of the object it
\* returns: a plain integer, a datetime, or a value of a type json cannot
\* encode.
CreatedValues ==
    { [type |-> "int",      repr |-> "1700000000"],
      [type |-> "datetime", repr |-> "2024-01-01T00:00:00"],
      [type |-> "Decimal",  repr |-> "1.5"] }

\* Messages of the StripeError the provider raises.
ProviderMessages == { "No such customer", "Your card was declined" }

\* What the provider answers to the concurrent requests: an object json can
\* encode or one it cannot, and one error message.
ConcurrentCreated == { c \in CreatedValues : c.type # "datetime" }
ConcurrentMessages == { "No such customer" }

\* The URIs read_resource is called with.
AllURIs ==
    { "audit://stripe-operations", "audit://anything", "audit:", "AUDIT://x",
      "Audit:log", "file://x", "http://audit", "audit", "audits://x",
      "//audit/x", ":audit", "" }

\* Inputs of the requests of SpecServer.
ServerNames ==
    { "customer_create", "customer_retrieve", "foo_bar" }
ServerArguments == { ArgsOver(RequiredKeys) }
ServerCreated == { c \in CreatedValues : c.type = "int" }
ServerURIs == { "audit://stripe-operations", "file://x" }

\* Inputs of the requests of SpecReport.
ReportNames == { "customer_create", "payment_intent_create", "refund_create" }
ReportArguments == { ArgsOver(Keys) }

\* ------------------------------------------------------------------- state
VARIABLES
    audit_entries,  \* StripeManager.audit_entries
    pc,             \* per request: "idle", "awaiting", "done", "cancelled"
    request,        \* per request: the CallToolRequest (name, arguments)
    thread,         \* per request: the worker thread of asyncio.to_thread
    outcome,        \* per request: what call_tool returned or raised
    reply           \* the latest answer of a GET endpoint

vars == <<audit_entries, pc, request, thread, outcome, reply>>

NoRequest == [name |-> None, arguments |-> EmptyDict]
NoThread  == [state |-> "none", func |-> None, kwargs |-> EmptyDict,
              result |-> None]
NoOutcome == [exc |-> None, status_code |-> 0, detail |-> None,
              content |-> <<>>]
\* For a report of the audit log, `seen` is the ledger it was rendered from
\* and `pending` the number of call_tool requests suspended at their await
\* at that time.
NoReply   == [endpoint |-> None, uri |-> None, status_code |-> 0,
              body |-> <<>>, seen |-> <<>>, pending |-> 0]

\* ----------------------------------------------------------------- helpers
\* str.startswith
StartsWith(s, prefix) ==
    /\ Len(s) >= Len(prefix)
    /\ SubSeq(s, 1, Len(prefix)) = prefix

\* dict.get(key, default)
Get(args, key, default) ==
    IF key \in DOMAIN args THEN args[key] ELSE default

\* What the synchronous part of a handler ends with: an exception, or the
\* submission of a Stripe call to a worker thread (the await).
RaiseHTTPException(code, text) ==
    [kind |-> "raise", exc |-> "HTTPException", status_code |-> code,
     detail |-> text, func |-> None, kwargs |-> EmptyDict]

\* args[key] on a mapping without the key.
RaiseKeyError(key) ==
    [kind |-> "raise", exc |-> "KeyError", status_code |-> 0,
     detail |-> key, func |-> None, kwargs |-> EmptyDict]

to_thread(f, kw) ==
    [kind |-> "await", exc |-> None, status_code |-> 0, detail |-> None,
     func |-> f, kwargs |-> kw]

\* --------------------------------------------------------------- handlers
\* handle_customer_operations up to its await: the keyword arguments are
\* evaluated left to right before asyncio.to_thread is called.
handle_customer_operations(name, args) ==
    IF name = "customer_create" THEN
        IF "email" \notin DOMAIN args THEN RaiseKeyError("email")
        ELSE to_thread("stripe.Customer.create",
                       [email    |-> args["email"],
                        name     |-> Get(args, "name", None),
                        metadata |-> Get(args, "metadata", EmptyDict)])
    ELSE IF name = "customer_retrieve" THEN
        IF "customer_id" \notin DOMAIN args THEN RaiseKeyError("customer_id")
        ELSE to_thread("stripe.Customer.retrieve",
                       [id |-> args["customer_id"]])
    ELSE IF name = "customer_update" THEN
        IF "customer_id" \notin DOMAIN args THEN RaiseKeyError("customer_id")
        ELSE IF "update_fields" \notin DOMAIN args
             THEN RaiseKeyError("update_fields")
        ELSE to_thread("stripe.Customer.modify",
                       [id     |-> args["customer_id"],
                        fields |-> args["update_fields"]])
    ELSE RaiseHTTPException(400, "Unknown customer operation: " \o name)

\* Mutant of handle_payment_operations: payment_method_types defaults to the
\* empty list.
handle_payment_operations_no_card(name, args) ==
    IF name = "payment_intent_create" THEN
        IF "amount" \notin DOMAIN args THEN RaiseKeyError("amount")
        ELSE IF "currency" \notin DOMAIN args THEN RaiseKeyError("currency")
        ELSE to_thread("stripe.PaymentIntent.create",
                       [amount   |-> args["amount"],
                        currency |-> args["currency"],
                        payment_method_types |->
                            Get(args, "payment_method_types", << >>),
                        customer |-> Get(args, "customer", None),
                        metadata |-> Get(args, "metadata", EmptyDict)])
    ELSE RaiseHTTPException(400, "Unknown payment operation: " \o name)

\* handle_payment_operations up to its await (numbers are written as their
\* decimal text: the default limit 10 is "10").
handle_payment_operations(name, args) ==
    IF name = "payment_intent_create" THEN
        IF "amount" \notin DOMAIN args THEN RaiseKeyError("amount")
        ELSE IF "currency" \notin DOMAIN args THEN RaiseKeyError("currency")
        ELSE to_thread("stripe.PaymentIntent.create",
                       [amount   |-> args["amount"],
                        currency |-> args["currency"],
                        payment_method_types |->
                            Get(args, "payment_method_types", <<"card">>),
                        customer |-> Get(args, "customer", None),
                        metadata |-> Get(args, "metadata", EmptyDict)])
    ELSE IF name = "charge_list" THEN
        to_thread("stripe.Charge.list",
                  [limit    |-> Get(args, "limit", "10"),
                   customer |-> Get(args, "customer_id", None)])
    ELSE RaiseHTTPException(400, "Unknown payment operation: " \o name)

\* Mutant of handle_refund_operations: the group's only operation is taken
\* for granted and the name is not compared.
handle_refund_operations_any(name, args) ==
    IF "charge_id" \notin DOMAIN args THEN RaiseKeyError("charge_id")
    ELSE to_thread("stripe.Refund.create",
                   [charge |-> args["charge_id"],
                    amount |-> Get(args, "amount", None),
                    reason |-> Get(args, "reason", "requested_by_customer")])

\* handle_refund_operations up to its await.
handle_refund_operations(name, args) ==
    IF name = "refund_create" THEN
        IF "charge_id" \notin DOMAIN args THEN RaiseKeyError("charge_id")
        ELSE to_thread("stripe.Refund.create",
                       [charge |-> args["charge_id"],
                        amount |-> Get(args, "amount", None),
                        reason |-> Get(args, "reason",
                                       "requested_by_customer")])
    ELSE RaiseHTTPException(400, "Unknown refund operation: " \o name)

\* Mutant of call_tool_dispatch: the last group is a plain else.
call_tool_dispatch_else(name, args) ==
    IF StartsWith(name, "customer_") THEN
        handle_customer_operations(name, args)
    ELSE IF StartsWith(name, "payment_") THEN
        handle_payment_operations(name, args)
    ELSE handle_refund_operations(name, args)

\* The try body of call_tool: the handler group is chosen by prefix.
call_tool_dispatch(name, args) ==
    IF StartsWith(name, "customer_") THEN
        handle_customer_operations(name, args)
    ELSE IF StartsWith(name, "payment_") THEN
        handle_payment_operations(name, args)
    ELSE IF StartsWith(name, "refund_") THEN
        handle_refund_operations(name, args)
    ELSE RaiseHTTPException(400, "Unknown tool: " \o name)

\* Mutant of logged_operation: every branch that reached Stripe is logged.
logged_operation_all(name) == name

\* The operation a handler passes to manager.log_operation once its await
\* has returned, None for the branches that do not call it.
logged_operation(name) ==
    CASE name = "customer_create"       -> "customer_create"
      [] name = "customer_update"       -> "customer_update"
      [] name = "payment_intent_create" -> "payment_intent_create"
      [] name = "refund_create"         -> "refund_create"
      [] OTHER                          -> None

\* Mutant of log_operation: the newest entry is put first.
log_operation_prepends(entries, now, operation, parameters) ==
    <<[timestamp  |-> now,
       operation  |-> operation,
       parameters |-> parameters]>> \o entries

\* Mutant of log_operation: the list is rebound to the new entry alone.
log_operation_rebinds(entries, now, operation, parameters) ==
    <<[timestamp  |-> now,
       operation  |-> operation,
       parameters |-> parameters]>>

\* StripeManager.log_operation: the entry appended to audit_entries.
log_operation(entries, now, operation, parameters) ==
    Append(entries, [timestamp  |-> now,
                     operation  |-> operation,
                     parameters |-> parameters])

\* ------------------------------------------------------------- serializer
\* custom_json_serializer: the `default` hook json.dumps calls on a value
\* it cannot encode itself.
custom_json_serializer(obj) ==
    IF obj.type = "datetime" THEN [ok |-> TRUE, text |-> obj.repr]
    ELSE IF obj.type = "StripeObject" THEN [ok |-> TRUE, text |-> obj.repr]
    ELSE [ok |-> FALSE, text |-> "TypeError"]

\* json.dumps(response, default=custom_json_serializer) on the object a
\* Stripe call returned: a mapping with an id and a `created` value.
json_dumps(obj) ==
    LET created == IF obj.created.type = "int"
                   THEN [ok |-> TRUE, text |-> obj.created.repr]
                   ELSE custom_json_serializer(obj.created)
    IN  IF created.ok
        THEN [ok |-> TRUE,
              text |-> "{id: " \o obj.id \o ", created: "
                       \o created.text \o "}"]
        ELSE created

\* ------------------------------------------------------- audit log report
\* A text is modelled as the sequence of its lines, each ended by "\n" in
\* the Python string; the sentence of the empty ledger is one line with no
\* "\n" after it.
RuleWidth == 50

RECURSIVE Repeat(_, _)
\* The str * int of "-" * 50.
Repeat(s, n) == IF n = 0 THEN "" ELSE s \o Repeat(s, n - 1)

\* datetime.isoformat() of the clock reading t.
isoformat(t) == "2026-01-01T00:00:0" \o SubSeq("0123456789", t + 1, t + 1)

\* The order in which a dict is iterated: the order of insertion, taken to
\* be this one for every arguments mapping.
KeyOrder ==
    << "email", "customer_id", "update_fields", "amount", "currency",
       "charge_id", "metadata", "payment_method_types", "customer" >>

\* json.dumps(ArgValue(k), indent=2) as it stands inside the enclosing
\* object: the lines of the value, nested one level.
JsonOfArg(k) ==
    CASE k = "email"                -> << "\"ann@example.com\"" >>
      [] k = "customer_id"          -> << "\"cus_1\"" >>
      [] k = "update_fields"        -> << "{", "    \"name\": \"Bob\"", "  }" >>
      [] k = "amount"               -> << "500" >>
      [] k = "currency"             -> << "\"usd\"" >>
      [] k = "charge_id"            -> << "\"ch_1\"" >>
      [] k = "metadata"             -> << "{", "    \"order\": \"42\"", "  }" >>
      [] k = "payment_method_types" ->
             << "[", "    \"card\",", "    \"us_bank_account\"", "  ]" >>
      [] k = "customer"             -> << "\"cus_2\"" >>

RECURSIVE ItemLines(_, _)
\* The lines of the items of params from the i-th key of KeyOrder on: each
\* item is `  "key": value`, followed by a comma unless it is the last.
ItemLines(params, i) ==
    IF i > Len(KeyOrder) THEN << >>
    ELSE IF KeyOrder[i] \notin DOMAIN params THEN ItemLines(params, i + 1)
    ELSE LET k     == KeyOrder[i]
             v     == JsonOfArg(k)
             more  == \E j \in (i + 1)..Len(KeyOrder) :
                         KeyOrder[j] \in DOMAIN params
             item  == [v EXCEPT ![1] = "  \"" \o k \o "\": " \o @]
             ended == IF more
                      THEN [item EXCEPT ![Len(item)] = @ \o ","]
                      ELSE item
         IN  ended \o ItemLines(params, i + 1)

\* json.dumps(parameters, indent=2)
json_dumps_indent(params) ==
    IF DOMAIN params = {} THEN << "{}" >>
    ELSE << "{" >> \o ItemLines(params, 1) \o << "}" >>

\* The lines one entry adds to the report (body of the for loop).
ReportBlock(entry) ==
    LET js == json_dumps_indent(entry.parameters)
    IN  << "[" \o isoformat(entry.timestamp) \o "]",
           "Operation: " \o entry.operation >>
        \o [js EXCEPT ![1] = "Parameters: " \o @]
        \o << Repeat("-", RuleWidth) >>

RECURSIVE ReportBlocks_newest_first(_)
\* Mutant of ReportBlocks: the latest entry comes first.
ReportBlocks_newest_first(entries) ==
    IF entries = << >> THEN << >>
    ELSE ReportBlocks_newest_first(Tail(entries))
         \o ReportBlock(Head(entries))

RECURSIVE ReportBlocks(_)
ReportBlocks(entries) ==
    IF entries = << >> THEN << >>
    ELSE ReportBlock(Head(entries)) \o ReportBlocks(Tail(entries))

\* Mutant of _synthesize_audit_log: no sentence of its own for an empty list.
_synthesize_audit_log_always_blocks(entries) ==
    << "Stripe Operations Audit Log", "" >> \o ReportBlocks(entries)

\* StripeManager._synthesize_audit_log (the two clipboard signs of the
\* title line are left out).
_synthesize_audit_log(entries) ==
    IF entries = << >> THEN << "No Stripe operations performed yet." >>
    ELSE << "Stripe Operations Audit Log", "" >> \o ReportBlocks(entries)

\* ------------------------------------------------------------------ actions
Init ==
    /\ audit_entries = <<>>
    /\ pc = [r \in Reqs |-> "idle"]
    /\ request = [r \in Reqs |-> NoRequest]
    /\ thread = [r \in Reqs |-> NoThread]
    /\ outcome = [r \in Reqs |-> NoOutcome]
    /\ reply = NoReply

\* Mutant of CallTool: the provider is pinged (stripe.Customer.list in a
\* worker thread) before the name and the arguments are looked at.
CallTool_pings_first(r, name, args) ==
    /\ pc[r] = "idle"
    /\ request' = [request EXCEPT ![r] = [name |-> name, arguments |-> args]]
    /\ LET d == call_tool_dispatch(name, args)
       IN  IF d.kind = "raise"
           THEN /\ pc' = [pc EXCEPT ![r] = "done"]
                /\ outcome' = [outcome EXCEPT ![r] =
                       [exc |-> d.exc, status_code |-> d.status_code,
                        detail |-> d.detail, content |-> <<>>]]
                /\ thread' = [thread EXCEPT ![r] =
                       [state |-> "returned", func |-> "stripe.Customer.list",
                        kwargs |-> EmptyDict, result |-> None]]
           ELSE /\ pc' = [pc EXCEPT ![r] = "awaiting"]
                /\ thread' = [thread EXCEPT ![r] =
                       [state |-> "queued", func |-> d.func,
                        kwargs |-> d.kwargs, result |-> None]]
                /\ UNCHANGED outcome
    /\ UNCHANGED <<audit_entries, reply>>

\* call_tool from the arrival of the request to its first suspension: it
\* either raises (nothing was submitted to a thread) or awaits the thread
\* that runs the Stripe call.
CallTool(r, name, args) ==
    /\ pc[r] = "idle"
    /\ request' = [request EXCEPT ![r] = [name |-> name, arguments |-> args]]
    /\ LET d == call_tool_dispatch(name, args)
       IN  IF d.kind = "raise"
           THEN /\ pc' = [pc EXCEPT ![r] = "done"]
                /\ outcome' = [outcome EXCEPT ![r] =
                       [exc |-> d.exc, status_code |-> d.status_code,
                        detail |-> d.detail, content |-> <<>>]]
                /\ UNCHANGED thread
           ELSE /\ pc' = [pc EXCEPT ![r] = "awaiting"]
                /\ thread' = [thread EXCEPT ![r] =
                       [state |-> "queued", func |-> d.func,
                        kwargs |-> d.kwargs, result |-> None]]
                /\ UNCHANGED outcome
    /\ UNCHANGED <<audit_entries, reply>>

\* A free worker thread of the executor takes the queued Stripe call.
ThreadStart(r) ==
    /\ thread[r].state = "queued"
    /\ Cardinality({q \in Reqs : thread[q].state = "running"}) < PoolSize
    /\ thread' = [thread EXCEPT ![r].state = "running"]
    /\ UNCHANGED <<audit_entries, pc, request, outcome, reply>>

\* The worker thread's Stripe call returns the provider's object: a mapping
\* with an id and a `created` value.
ThreadReturn(r, created) ==
    /\ thread[r].state = "running"
    /\ thread' = [thread EXCEPT ![r].state = "returned",
                                ![r].result =
                                    [id |-> "id_1", created |-> created]]
    /\ UNCHANGED <<audit_entries, pc, request, outcome, reply>>

\* The worker thread's Stripe call raises stripe.error.StripeError.
ThreadRaise(r, msg) ==
    /\ thread[r].state = "running"
    /\ thread' = [thread EXCEPT ![r].state = "raised", ![r].result = msg]
    /\ UNCHANGED <<audit_entries, pc, request, outcome, reply>>

\* The handler after its await, when the thread returned: log_operation for
\* the branches that call it, then json.dumps of the response.
ResumeReturned(r, now) ==
    /\ pc[r] = "awaiting"
    /\ thread[r].state = "returned"
    /\ LET op   == logged_operation(request[r].name)
           text == json_dumps(thread[r].result)
       IN  /\ audit_entries' =
                  IF op # None
                  THEN log_operation(audit_entries, now, op,
                                     request[r].arguments)
                  ELSE audit_entries
           /\ outcome' = [outcome EXCEPT ![r] =
                  IF text.ok
                  THEN [exc |-> None, status_code |-> 200, detail |-> None,
                        content |-> <<[text |-> text.text]>>]
                  ELSE [exc |-> "TypeError", status_code |-> 0,
                        detail |-> text.text, content |-> <<>>]]
    /\ pc' = [pc EXCEPT ![r] = "done"]
    /\ UNCHANGED <<request, thread, reply>>

\* Mutant of ResumeRaised: the failed operation is logged all the same.
ResumeRaised_logs(r) ==
    /\ pc[r] = "awaiting"
    /\ thread[r].state = "raised"
    /\ audit_entries' = Append(audit_entries,
           [timestamp  |-> 1,
            operation  |-> request[r].name,
            parameters |-> request[r].arguments])
    /\ outcome' = [outcome EXCEPT ![r] =
           [exc |-> "HTTPException", status_code |-> 500,
            detail |-> "Payment processing failed: " \o thread[r].result,
            content |-> <<>>]]
    /\ pc' = [pc EXCEPT ![r] = "done"]
    /\ UNCHANGED <<request, thread, reply>>

\* Mutant of ResumeRaised: the provider's message is left out.
ResumeRaised_generic(r) ==
    /\ pc[r] = "awaiting"
    /\ thread[r].state = "raised"
    /\ outcome' = [outcome EXCEPT ![r] =
           [exc |-> "HTTPException", status_code |-> 500,
            detail |-> "Payment processing failed", content |-> <<>>]]
    /\ pc' = [pc EXCEPT ![r] = "done"]
    /\ UNCHANGED <<audit_entries, request, thread, reply>>

\* The await re-raises the thread's StripeError; the except clause of
\* call_tool turns it into HTTPException(500).
ResumeRaised(r) ==
    /\ pc[r] = "awaiting"
    /\ thread[r].state = "raised"
    /\ outcome' = [outcome EXCEPT ![r] =
           [exc |-> "HTTPException", status_code |-> 500,
            detail |-> "Payment processing failed: " \o thread[r].result,
            content |-> <<>>]]
    /\ pc' = [pc EXCEPT ![r] = "done"]
    /\ UNCHANGED <<audit_entries, request, thread, reply>>

\* Mutant of Cancel: the handler logs its operation on the way out.
Cancel_logs(r) ==
    /\ pc[r] = "awaiting"
    /\ pc' = [pc EXCEPT ![r] = "cancelled"]
    /\ outcome' = [outcome EXCEPT ![r] =
           [exc |-> "CancelledError", status_code |-> 0, detail |-> None,
            content |-> <<>>]]
    /\ thread' = IF thread[r].state = "queued"
                 THEN [thread EXCEPT ![r].state = "cancelled"]
                 ELSE thread
    /\ audit_entries' = Append(audit_entries,
           [timestamp  |-> 1,
            operation  |-> request[r].name,
            parameters |-> request[r].arguments])
    /\ UNCHANGED <<request, reply>>

\* The request's task is cancelled while it is suspended (the client went
\* away, the server shuts down): CancelledError is thrown at the await and
\* the rest of the handler is skipped.  A call still queued in the executor
\* is dropped; one a worker thread already runs goes on to its end.
Cancel(r) ==
    /\ pc[r] = "awaiting"
    /\ pc' = [pc EXCEPT ![r] = "cancelled"]
    /\ outcome' = [outcome EXCEPT ![r] =
           [exc |-> "CancelledError", status_code |-> 0, detail |-> None,
            content |-> <<>>]]
    /\ thread' = IF thread[r].state = "queued"
                 THEN [thread EXCEPT ![r].state = "cancelled"]
                 ELSE thread
    /\ UNCHANGED <<audit_entries, request, reply>>

\* urllib.parse.urlparse(uri).scheme: the text before the first colon, in
\* lower case, when it starts with a letter and holds only letters, digits,
\* "+", "-" and "."; otherwise the empty text.
LowerCase == "abcdefghijklmnopqrstuvwxyz"
UpperCase == "ABCDEFGHIJKLMNOPQRSTUVWXYZ"
SchemeTail == "0123456789+-."

IndexIn(c, text) ==
    LET hits == { i \in 1..Len(text) : SubSeq(text, i, i) = c }
    IN  IF hits = {} THEN 0 ELSE CHOOSE i \in hits : \A j \in hits : i <= j

RECURSIVE lower(_)
\* str.lower
lower(text) ==
    IF text = "" THEN ""
    ELSE LET c == SubSeq(text, 1, 1)
             u == IndexIn(c, UpperCase)
         IN  (IF u > 0 THEN SubSeq(LowerCase, u, u) ELSE c)
             \o lower(SubSeq(text, 2, Len(text)))

\* Mutant of urlparse_scheme: the URI is tested for the prefix "audit".
urlparse_scheme_prefix(uri) ==
    IF StartsWith(uri, "audit") THEN "audit" ELSE ""

urlparse_scheme(uri) ==
    LET i == IndexIn(":", uri)
        isalpha(c) == IndexIn(c, LowerCase) > 0 \/ IndexIn(c, UpperCase) > 0
    IN  IF /\ i > 1
           /\ isalpha(SubSeq(uri, 1, 1))
           /\ \A j \in 1..(i - 1) :
                 \/ isalpha(SubSeq(uri, j, j))
                 \/ IndexIn(SubSeq(uri, j, j), SchemeTail) > 0
        THEN lower(SubSeq(uri, 1, i - 1))
        ELSE ""

\* The number of requests suspended at the await of their Stripe call.
Pending == Cardinality({ r \in Reqs : pc[r] = "awaiting" })

\* parsed.scheme for each of the URIs, computed once.
parsed_scheme == [uri \in AllURIs |-> urlparse_scheme(uri)]

\* Mutant of ReadResource: the entries are handed out and the list emptied.
ReadResource_drains(uri) ==
    /\ reply' = [endpoint |-> "read_resource", uri |-> uri,
                 status_code |-> 200,
                 body |-> _synthesize_audit_log(audit_entries),
                 seen |-> audit_entries, pending |-> Pending]
    /\ audit_entries' = << >>
    /\ UNCHANGED <<pc, request, thread, outcome>>

\* Mutant of ReadResource: the Stripe calls run on the event loop itself, so
\* no route is served while one of them is running.
ReadResource_blocked(uri) ==
    /\ \A r \in Reqs : thread[r].state # "running"
    /\ reply' = [endpoint |-> "read_resource", uri |-> uri,
                 status_code |-> 200,
                 body |-> _synthesize_audit_log(audit_entries),
                 seen |-> audit_entries, pending |-> Pending]
    /\ UNCHANGED <<audit_entries, pc, request, thread, outcome>>

\* read_resource: GET /resource?uri=...
ReadResource(uri) ==
    /\ reply' =
          IF parsed_scheme[uri] # "audit"
          THEN [endpoint |-> "read_resource", uri |-> uri,
                status_code |-> 400, body |-> <<"Unsupported URI scheme">>,
                seen |-> <<>>, pending |-> 0]
          ELSE [endpoint |-> "read_resource", uri |-> uri,
                status_code |-> 200,
                body |-> _synthesize_audit_log(audit_entries),
                seen |-> audit_entries, pending |-> Pending]
    /\ UNCHANGED <<audit_entries, pc, request, thread, outcome>>

\* get_stripe_tools: the names of the catalog.
get_stripe_tools ==
    << "customer_create", "payment_intent_create", "refund_create" >>

\* list_tools: GET /tools
ListTools ==
    /\ reply' = [endpoint |-> "list_tools", uri |-> None,
                 status_code |-> 200, body |-> get_stripe_tools,
                 seen |-> <<>>, pending |-> 0]
    /\ UNCHANGED <<audit_entries, pc, request, thread, outcome>>

\* list_resources: GET /resources (the uri of the one resource).
ListResources ==
    /\ reply' = [endpoint |-> "list_resources", uri |-> None,
                 status_code |-> 200, body |-> <<"audit://stripe-operations">>,
                 seen |-> <<>>, pending |-> 0]
    /\ UNCHANGED <<audit_entries, pc, request, thread, outcome>>

\* Requests are numbered in the order of their arrival.
Next ==
    \/ \E r \in Reqs :
           /\ pc[r] = "idle"
           /\ \A q \in 1..(r - 1) : pc[q] # "idle"
           /\ \E name \in Names, args \in Arguments : CallTool(r, name, args)
    \/ \E r \in Reqs : ThreadStart(r)
    \/ \E r \in Reqs, created \in ConcurrentCreated : ThreadReturn(r, created)
    \/ \E r \in Reqs, msg \in ConcurrentMessages : ThreadRaise(r, msg)
    \/ \E r \in Reqs, now \in Timestamps : ResumeReturned(r, now)
    \/ \E r \in Reqs : ResumeRaised(r)

Spec == Init /\ [][Next]_vars

\* One call_tool request, over every name and every arguments mapping.
NextOneCall ==
    \/ /\ pc[1] = "idle"
       /\ \E name \in AllNames, args \in AllArguments :
              CallTool(1, name, args)
    \/ ThreadStart(1)
    \/ \E created \in CreatedValues : ThreadReturn(1, created)
    \/ \E msg \in ProviderMessages : ThreadRaise(1, msg)
    \/ \E now \in Timestamps : ResumeReturned(1, now)
    \/ ResumeRaised(1)

SpecOneCall == Init /\ [][NextOneCall]_vars

\* The whole server: concurrent call_tool requests that may be cancelled,
\* and the GET endpoints.
NextServer ==
    \/ \E r \in Reqs :
           /\ pc[r] = "idle"
           /\ \A q \in 1..(r - 1) : pc[q] # "idle"
           /\ \E name \in ServerNames, args \in ServerArguments :
                  CallTool(r, name, args)
    \/ \E r \in Reqs : ThreadStart(r)
    \/ \E r \in Reqs, created \in ServerCreated : ThreadReturn(r, created)
    \/ \E r \in Reqs, msg \in ConcurrentMessages : ThreadRaise(r, msg)
    \/ \E r \in Reqs, now \in Timestamps : ResumeReturned(r, now)
    \/ \E r \in Reqs : ResumeRaised(r)
    \/ \E r \in Reqs : Cancel(r)
    \/ \E uri \in ServerURIs : ReadResource(uri)
    \/ ListTools
    \/ ListResources

SpecServer == Init /\ [][NextServer]_vars

\* Mutating calls that succeed, and reads of the audit log: the ledgers the
\* report is made of.
NextReport ==
    \/ \E r \in Reqs :
           /\ pc[r] = "idle"
           /\ \A q \in 1..(r - 1) : pc[q] # "idle"
           /\ \E name \in ReportNames, args \in ReportArguments :
                  CallTool(r, name, args)
    \/ \E r \in Reqs : ThreadStart(r)
    \/ \E r \in Reqs, created \in ServerCreated : ThreadReturn(r, created)
    \/ \E r \in Reqs, now \in Timestamps : ResumeReturned(r, now)
    \/ ReadResource("audit://stripe-operations")

SpecReport == Init /\ [][NextReport]_vars

\* One call_tool request and the GET endpoints, over every URI.
NextResource ==
    \/ /\ pc[1] = "idle"
       /\ \E name \in Names, args \in Arguments : CallTool(1, name, args)
    \/ ThreadStart(1)
    \/ \E created \in ConcurrentCreated : ThreadReturn(1, created)
    \/ \E msg \in ConcurrentMessages : ThreadRaise(1, msg)
    \/ \E now \in Timestamps : ResumeReturned(1, now)
    \/ ResumeRaised(1)
    \/ \E uri \in AllURIs : ReadResource(uri)
    \/ ListTools
    \/ ListResources

SpecResource == Init /\ [][NextResource]_vars

\* ------------------------------------------------------ claim vocabulary
\* The status the HTTP caller sees: call_tool returned (200), raised an
\* HTTPException (its status_code), or raised anything else, which the
\* framework answers with 500 Internal Server Error.
HttpStatus(o) ==
    IF o.exc = None THEN 200
    ELSE IF o.exc = "HTTPException" THEN o.status_code
    ELSE 500

\* The operations the specification calls mutating and non-mutating.
MutatingOps ==
    { "customer_create", "customer_update", "payment_intent_create",
      "refund_create" }
NonMutatingOps == { "customer_retrieve", "charge_list" }

\* The keys the specification lists as required, per operation.
Required(name) ==
    CASE name = "customer_create"       -> {"email"}
      [] name = "customer_retrieve"     -> {"customer_id"}
      [] name = "customer_update"       -> {"customer_id", "update_fields"}
      [] name = "payment_intent_create" -> {"amount", "currency"}
      [] name = "refund_create"         -> {"charge_id"}
      [] OTHER                          -> {}

\* The required keys a request does not hold.
Missing(req) == Required(req.name) \ DOMAIN req.arguments

\* The text s holds the text sub.
Contains(s, sub) ==
    \E i \in 1..(Len(s) - Len(sub) + 1) :
       SubSeq(s, i, i + Len(sub) - 1) = sub

\* Names of AllNames that start with none of customer_, payment_, refund_.
UnprefixedNames ==
    { "foo_bar", "charge_list", "charge_create", "Customer_create", "" }

\* Names of AllNames that start with a known prefix and are no operation,
\* with the group the prefix selects.
UnknownOperationNames ==
    { "customer_delete", "customer_", "payment_", "refund_list" }
GroupOf(name) ==
    CASE name \in {"customer_delete", "customer_"} -> "customer"
      [] name = "payment_"                         -> "payment"
      [] name = "refund_list"                      -> "refund"

\* The outcome is an error of input validation: an HTTPException(400) or
\* the KeyError of a missing key.
IsValidationError(o) ==
    \/ o.exc = "HTTPException" /\ o.status_code = 400
    \/ o.exc = "KeyError"

\* A step taken by request r or by its worker thread.
StepOf(r) == pc'[r] # pc[r] \/ thread'[r] # thread[r]

\* The ledger after the step is the ledger before it plus one entry e.
AppendedOne(e) ==
    /\ Len(audit_entries') = Len(audit_entries) + 1
    /\ SubSeq(audit_entries', 1, Len(audit_entries)) = audit_entries
    /\ audit_entries'[Len(audit_entries')].operation = e.operation
    /\ audit_entries'[Len(audit_entries')].parameters = e.parameters

TypeOK ==
    /\ pc \in [Reqs -> {"idle", "awaiting", "done", "cancelled"}]
    /\ \A r \in Reqs : thread[r].state \in
           {"none", "queued", "cancelled", "running", "returned", "raised"}
    /\ \A i \in 1..Len(audit_entries) :
           audit_entries[i].timestamp \in Timestamps

\* ------------------------------------------------------------------ claims
\* C1: a mutating call whose Stripe call succeeded appends exactly one entry
\* to the ledger, in the step that produces its response and in no earlier
\* step of the call; the entry holds the called name and the arguments
\* mapping as the caller sent it.
C1_MutatingSuccessAppendsOne ==
    [][\A r \in Reqs :
          /\ (StepOf(r) /\ pc'[r] # "done")
                => audit_entries' = audit_entries
          /\ (/\ pc[r] = "awaiting"
              /\ pc'[r] = "done"
              /\ thread[r].state = "returned"
              /\ request[r].name \in MutatingOps)
                => AppendedOne([operation  |-> request[r].name,
                                parameters |-> request[r].arguments])]_vars

\* C1 witness: two mutating calls have returned their responses, the second
\* entry of the ledger is the one of a call whose arguments hold no
\* optional key.
C1_Witness ==
    /\ Len(audit_entries) = 2
    /\ \E r \in Reqs :
          /\ pc[r] = "done"
          /\ outcome[r].exc = None
          /\ request[r].name \in MutatingOps
          /\ DOMAIN request[r].arguments = RequiredKeys
          /\ audit_entries[2].operation = request[r].name
          /\ audit_entries[2].parameters = request[r].arguments

\* C2: no step of a non-mutating call (customer_retrieve, charge_list)
\* changes the ledger, whether the call is rejected, fails at the provider
\* or succeeds.
C2_NonMutatingNeverAppends ==
    [][\A r \in Reqs :
          (StepOf(r) /\ request'[r].name \in NonMutatingOps)
             => audit_entries' = audit_entries]_vars

\* C2 witness: a customer_retrieve has returned its response and another
\* non-mutating call has ended in an error.
C2_Witness ==
    \E r, q \in Reqs :
       /\ pc[r] = "done"
       /\ request[r].name = "customer_retrieve"
       /\ outcome[r].exc = None
       /\ pc[q] = "done"
       /\ request[q].name \in NonMutatingOps
       /\ outcome[q].exc # None

\* C3: a mutating call changes the ledger in no step it takes while its
\* Stripe call has not returned, so a call whose Stripe call raised ends
\* with the ledger as it found it.
C3_FailedMutationNotLogged ==
    [][\A r \in Reqs :
          (/\ StepOf(r)
           /\ request'[r].name \in MutatingOps
           /\ thread[r].state # "returned")
             => audit_entries' = audit_entries]_vars

\* C3 witness: a mutating call has ended after its Stripe call raised,
\* beside an entry another call appended.
C3_Witness ==
    \E r \in Reqs :
       /\ pc[r] = "done"
       /\ request[r].name \in MutatingOps
       /\ thread[r].state = "raised"
       /\ Len(audit_entries) = 1

\* C4 (as claimed): no step of a call that ends in an error changes the
\* ledger.
C4_ErrorMeansNoAuditWrite ==
    [][\A r \in Reqs :
          (StepOf(r) /\ pc'[r] = "done" /\ outcome'[r].exc # None)
             => audit_entries' = audit_entries]_vars

\* C5 (as claimed): the name charge_list reaches the charge-listing
\* operation: stripe.Charge.list is submitted, the call is not rejected with
\* a 400, and when the provider's answer is serialized the response is one
\* TextContent.
C5_ChargeListDispatches ==
    \A r \in Reqs :
       (pc[r] # "idle" /\ request[r].name = "charge_list")
          => /\ thread[r].func = "stripe.Charge.list"
             /\ HttpStatus(outcome[r]) # 400
             /\ (pc[r] = "done" /\ outcome[r].exc = None)
                   => Len(outcome[r].content) = 1

\* C6 (as claimed): a call that lacks a key its operation requires ends
\* with status 400 and an error that names a missing key.
C6_MissingArgumentIs400 ==
    \A r \in Reqs :
       (pc[r] = "done" /\ Missing(request[r]) # {})
          => /\ HttpStatus(outcome[r]) = 400
             /\ \E k \in Missing(request[r]) : Contains(outcome[r].detail, k)

\* C7: a name that starts with none of the three prefixes ends, whatever the
\* arguments, with HTTPException(400) "Unknown tool: <name>".
C7_UnknownPrefixIsUnknownTool ==
    \A r \in Reqs :
       (pc[r] # "idle" /\ request[r].name \in UnprefixedNames)
          => /\ pc[r] = "done"
             /\ outcome[r].exc = "HTTPException"
             /\ HttpStatus(outcome[r]) = 400
             /\ outcome[r].detail = "Unknown tool: " \o request[r].name

\* C7 witness: foo_bar was called with every key supplied.
C7_Witness ==
    \E r \in Reqs :
       /\ pc[r] = "done"
       /\ request[r].name = "foo_bar"
       /\ DOMAIN request[r].arguments = Keys
       /\ outcome[r].detail = "Unknown tool: foo_bar"

\* C8: a name with a known prefix that is no operation of its group ends,
\* whatever the arguments, with HTTPException(400) "Unknown <group>
\* operation: <name>".
C8_UnknownOperationIs400 ==
    \A r \in Reqs :
       (pc[r] # "idle" /\ request[r].name \in UnknownOperationNames)
          => /\ pc[r] = "done"
             /\ outcome[r].exc = "HTTPException"
             /\ HttpStatus(outcome[r]) = 400
             /\ outcome[r].detail =
                   "Unknown " \o GroupOf(request[r].name)
                              \o " operation: " \o request[r].name

\* C8 witness: refund_list was called with the key refund_create requires.
C8_Witness ==
    \E r \in Reqs :
       /\ pc[r] = "done"
       /\ request[r].name = "refund_list"
       /\ "charge_id" \in DOMAIN request[r].arguments
       /\ HttpStatus(outcome[r]) = 400

\* C9: a call that ended in an error of input validation (unknown tool,
\* unknown operation, missing key) has submitted nothing to a worker thread.
C9_ValidationBeforeRemoteCall ==
    \A r \in Reqs :
       (pc[r] = "done" /\ IsValidationError(outcome[r]))
          => thread[r] = NoThread

\* C9 witness: customer_update with customer_id and without update_fields
\* ended on the missing key.
C9_Witness ==
    \E r \in Reqs :
       /\ pc[r] = "done"
       /\ request[r].name = "customer_update"
       /\ "customer_id" \in DOMAIN request[r].arguments
       /\ outcome[r].exc = "KeyError"
       /\ outcome[r].detail = "update_fields"

\* C10: a call whose Stripe call raised ends with HTTPException(500) whose
\* detail holds the provider's message; the StripeError itself is not what
\* call_tool raises.
C10_RemoteFailureIs500 ==
    \A r \in Reqs :
       (pc[r] = "done" /\ thread[r].state = "raised")
          => /\ outcome[r].exc = "HTTPException"
             /\ HttpStatus(outcome[r]) = 500
             /\ Contains(outcome[r].detail, thread[r].result)

\* C10 witness: a payment_intent_create ended after the provider declined
\* the card.
C10_Witness ==
    \E r \in Reqs :
       /\ pc[r] = "done"
       /\ request[r].name = "payment_intent_create"
       /\ thread[r].state = "raised"
       /\ thread[r].result = "Your card was declined"

\* ------------------------------------------------- the ledger and its calls

\* The requests whose mutating Stripe call returned and whose handler ran to
\* its end.
Completed ==
    { r \in Reqs : /\ pc[r] = "done"
                   /\ thread[r].state = "returned"
                   /\ request[r].name \in MutatingOps }

\* A complete ledger entry: the three fields log_operation writes.
WellFormed(entry) ==
    /\ DOMAIN entry = {"timestamp", "operation", "parameters"}
    /\ entry.timestamp \in Timestamps
    /\ entry.operation \in MutatingOps

\* The entry is the one request r's handler wrote.
EntryOf(entry, r) ==
    /\ entry.operation = request[r].name
    /\ entry.parameters = request[r].arguments

\* The maps giving every entry of the ledger a request of its own among rs.
Owners(rs) ==
    { f \in [1..Len(audit_entries) -> rs] :
         /\ \A i, j \in DOMAIN f : f[i] = f[j] => i = j
         /\ \A i \in DOMAIN f : EntryOf(audit_entries[i], f[i]) }

\* C11: when every request that arrived is a mutating call whose Stripe call
\* returned and whose handler ran to its end, the ledger holds exactly one
\* well-formed entry per call, each with the call's operation and arguments,
\* whatever the interleaving was.
C11_NoEntryLost ==
    (\A r \in Reqs : pc[r] = "idle" \/ r \in Completed)
       => /\ Len(audit_entries) = Cardinality(Completed)
          /\ \A i \in 1..Len(audit_entries) : WellFormed(audit_entries[i])
          /\ Owners(Completed) # {}

\* C11 witness: every request is a completed mutating call, the calls were
\* different, and the first entry is the second arrival's.
C11_Witness ==
    /\ Completed = Reqs
    /\ request[1].name # request[2].name
    /\ EntryOf(audit_entries[1], 2)
    /\ Len(audit_entries) = MaxReqs

\* ------------------------------------------------------------ slow calls

\* Request r is suspended at its await, its Stripe call not yet answered.
Suspended(r) ==
    /\ pc[r] = "awaiting"
    /\ thread[r].state \in {"queued", "running"}

\* Every worker of the executor is held by a running Stripe call.
PoolFull ==
    Cardinality({ r \in Reqs : thread[r].state = "running" }) = PoolSize

\* The GET routes can be served now.
ReadsServed ==
    /\ ENABLED ReadResource("audit://stripe-operations")
    /\ ENABLED ListTools
    /\ ENABLED ListResources

\* Request q can take the step that ends its call, or that starts it.
CanResume(q) ==
    /\ pc[q] = "idle" => ENABLED CallTool(q, "customer_create",
                                          ArgsOver(RequiredKeys))
    /\ (pc[q] = "awaiting" /\ thread[q].state = "returned")
          => ENABLED ResumeReturned(q, 1)
    /\ (pc[q] = "awaiting" /\ thread[q].state = "raised")
          => ENABLED ResumeRaised(q)

\* C12 as stated: while a call is suspended on the provider the GET routes
\* are served and every other call can start and go on to its end, its own
\* Stripe call included, whatever the state of the worker pool.
C12_SlowCallStallsNothing ==
    \A r \in Reqs :
       Suspended(r)
          => /\ ReadsServed
             /\ \A q \in Reqs \ {r} :
                   /\ CanResume(q)
                   /\ thread[q].state = "queued" => ENABLED ThreadStart(q)

\* C12 amended: while a call is suspended on the provider the GET routes are
\* served, even with every worker held, and every other call can start and
\* can resume once its own Stripe call is answered; its Stripe call is taken
\* by a worker when one is free, and stays queued while every worker is held.
C12_SlowCallStallsOnlyThePool ==
    \A r \in Reqs :
       Suspended(r)
          => /\ ReadsServed
             /\ \A q \in Reqs \ {r} :
                   /\ CanResume(q)
                   /\ thread[q].state = "queued"
                         => (ENABLED ThreadStart(q) <=> ~PoolFull)

\* C12 witness: the audit log was read, with status 200, while one call held
\* the only worker and the other call's Stripe call was queued behind it.
C12_Witness ==
    /\ PoolFull
    /\ \E r, q \in Reqs :
          /\ thread[r].state = "running" /\ pc[r] = "awaiting"
          /\ thread[q].state = "queued" /\ pc[q] = "awaiting"
    /\ reply.endpoint = "read_resource"
    /\ reply.status_code = 200
    /\ reply.pending = 2

\* ----------------------------------------------------------- cancellation

\* C13 as stated: a mutating call whose handler was cancelled while its
\* Stripe call was in flight, and whose Stripe call then returned, has an
\* entry of its own in the ledger: every request whose mutating Stripe call
\* returned and whose handler is over, cancelled or not, owns an entry.
C13_CancelledMutationRecorded ==
    LET over == { r \in Reqs : /\ pc[r] \in {"done", "cancelled"}
                               /\ thread[r].state = "returned"
                               /\ request[r].name \in MutatingOps }
    IN  \E f \in [over -> 1..Len(audit_entries)] :
           /\ \A r, q \in over : f[r] = f[q] => r = q
           /\ \A r \in over : EntryOf(audit_entries[f[r]], r)

\* ------------------------------------------------------------- the report

\* s is the beginning of t.
IsPrefix(s, t) == Len(s) <= Len(t) /\ SubSeq(t, 1, Len(s)) = s

\* The latest answer is a report of the audit log.
Rendered == reply.endpoint = "read_resource" /\ reply.status_code = 200

\* The report in hand is the report of the first entries of the ledger as it
\* is now, as many as the ledger had when it was read, all of them complete.
RenderOfPrefix ==
    Rendered
       => /\ Len(reply.seen) <= Len(audit_entries)
          /\ reply.body = _synthesize_audit_log(
                              SubSeq(audit_entries, 1, Len(reply.seen)))
          /\ \A i \in 1..Len(reply.seen) : WellFormed(audit_entries[i])

\* C14: a step that answers a GET route leaves the ledger as it was, and
\* through every interleaving of reads with tool calls a report stays the
\* report of a prefix of the ledger made of complete entries.
C14_RenderIsSnapshot ==
    /\ []RenderOfPrefix
    /\ [][reply' # reply => audit_entries' = audit_entries]_vars

\* C14 witness: the report in hand was made while a call was suspended, and
\* the ledger has since gained that call's entry.
C14_Witness ==
    /\ Rendered
    /\ reply.pending > 0
    /\ Len(reply.seen) = 1
    /\ Len(audit_entries) = 2

\* The step answers a read of the audit log with a report.
RenderStep ==
    /\ reply' # reply
    /\ reply'.endpoint = "read_resource"
    /\ reply'.status_code = 200

\* C15: a report of the empty ledger is the sentence "No Stripe operations
\* performed yet."; a report made right after another, the ledger still what
\* the first one read, has the same text; and making a report leaves the
\* ledger as it was.
C15_RenderEmptyAndIdempotent ==
    [][RenderStep
          => /\ audit_entries' = audit_entries
             /\ audit_entries = << >>
                   => reply'.body = << "No Stripe operations performed yet." >>
             /\ (Rendered /\ reply.seen = audit_entries)
                   => reply'.body = reply.body]_vars

\* C15 witness: the ledger holds an entry and was read twice in a row, the
\* second time under another audit URI.
C15_Witness ==
    /\ Rendered
    /\ reply.uri = "audit://anything"
    /\ reply.seen = audit_entries
    /\ Len(audit_entries) = 1
    /\ reply.pending = 0

\* ------------------------------------------------------------ the schemes

\* The URIs whose scheme is audit (a scheme is case-insensitive), those of
\* another scheme, and those without a scheme.
AuditSchemeURIs ==
    { "audit://stripe-operations", "audit://anything", "audit:", "AUDIT://x",
      "Audit:log" }
OtherSchemeURIs == { "file://x", "http://audit", "audits://x" }
NoSchemeURIs == { "audit", "//audit/x", ":audit", "" }

\* The step answers read_resource.
ReadStep == reply' # reply /\ reply'.endpoint = "read_resource"

C17_PaymentIntentDefaults ==
    \A r \in Reqs :
       (request[r].name = "payment_intent_create" /\ thread[r] # NoThread)
          => LET a == request[r].arguments
                 k == thread[r].kwargs
             IN  /\ thread[r].func = "stripe.PaymentIntent.create"
                 /\ DOMAIN k = { "amount", "currency", "payment_method_types",
                                 "customer", "metadata" }
                 /\ k.amount = a.amount
                 /\ k.currency = a.currency
                 /\ k.payment_method_types =
                       IF "payment_method_types" \in DOMAIN a
                       THEN a.payment_method_types ELSE << "card" >>
                 /\ k.customer =
                       IF "customer" \in DOMAIN a THEN a.customer ELSE None
                 /\ IF "metadata" \in DOMAIN a
                    THEN k.metadata = a.metadata
                    ELSE k.metadata = EmptyDict

\* C17 witness: payment_intent_create with amount and currency alone went
\* to Stripe with the card default.
C17_Witness ==
    \E r \in Reqs :
       /\ request[r].name = "payment_intent_create"
       /\ DOMAIN request[r].arguments = { "amount", "currency" }
       /\ thread[r].state = "returned"
       /\ thread[r].kwargs.payment_method_types = << "card" >>
       /\ thread[r].kwargs.metadata = EmptyDict

\* ------------------------------------------------------------ append-only

\* C18: whatever the step (a tool call of any kind starting, failing,
\* resuming or being cancelled, a Stripe call ending, a read, a listing),
\* the ledger before it is a prefix of the ledger after it.
C18_AppendOnly ==
    [][IsPrefix(audit_entries, audit_entries')]_vars

\* C18 witness: the ledger holds an entry, another call has failed at the
\* provider, and the catalog was listed last.
C18_Witness ==
    /\ Len(audit_entries) = 1
    /\ \E r \in Reqs : pc[r] = "done" /\ thread[r].state = "raised"
    /\ reply.endpoint = "list_tools"

\* ------------------------------------------------- the blocks of a report

\* The line that ends a block.
RuleLine == Repeat("-", RuleWidth)

\* The positions of the rule lines of a text.
RulesIn(text) == { i \in 1..Len(text) : text[i] = RuleLine }

\* The position of the k-th rule line of a text.
KthRule(text, k) ==
    CHOOSE i \in RulesIn(text) :
       Cardinality({ j \in RulesIn(text) : j <= i }) = k

\* The k-th block of a report: the lines after the title part (two lines) or
\* after the rule before, up to the k-th rule.
BlockOf(text, k) ==
    SubSeq(text, IF k = 1 THEN 3 ELSE KthRule(text, k - 1) + 1,
           KthRule(text, k))

\* C19: the report of a ledger of n > 0 entries has, after its title, n
\* blocks, as many as rule lines; the k-th block is the k-th entry's: its
\* timestamp in brackets, its operation, its parameters, and last the rule
\* line of 50 dashes.
C19_OneBlockPerEntry ==
    (Rendered /\ reply.seen # << >>)
       => LET text == reply.body
              n    == Len(reply.seen)
          IN  /\ text[1] = "Stripe Operations Audit Log"
              /\ text[2] = ""
              /\ Cardinality(RulesIn(text)) = n
              /\ text[Len(text)] = RuleLine
              /\ Len(RuleLine) = 50
              /\ \A k \in 1..n :
                    LET b  == BlockOf(text, k)
                        e  == reply.seen[k]
                        js == json_dumps_indent(e.parameters)
                    IN  /\ b[1] = "[" \o isoformat(e.timestamp) \o "]"
                        /\ b[2] = "Operation: " \o e.operation
                        /\ SubSeq(b, 3, Len(b) - 1)
                              = [js EXCEPT ![1] = "Parameters: " \o @]
                        /\ b[Len(b)] = RuleLine

\* C19 witness: a report of two entries of different operations, the first
\* stamped later than the second.
C19_Witness ==
    /\ Rendered
    /\ Len(reply.seen) = 2
    /\ reply.seen[1].operation # reply.seen[2].operation
    /\ reply.seen[1].timestamp > reply.seen[2].timestamp

\* ------------------------------------------------------- no ghost entries

\* The requests whose mutating Stripe call has returned.
Succeeded ==
    { r \in Reqs : /\ thread[r].state = "returned"
                   /\ request[r].name \in MutatingOps }

\* C20: in every state each ledger entry is that of a request of its own
\* whose mutating Stripe call had returned and whose handler has resumed (so
\* the ledger is never longer than the number of mutating Stripe calls that
\* returned, no call owns two entries, and no entry belongs to a call still
\* in flight); and a request's Stripe call, once over, is never followed by
\* another one of the same request.
C20_NoGhostEntries ==
    /\ [](/\ Owners(Completed) # {}
          /\ Len(audit_entries) <= Cardinality(Succeeded))
    /\ [][\A r \in Reqs :
             /\ thread[r].state \in {"returned", "raised", "cancelled"}
                   => thread'[r] = thread[r]
             /\ Len(audit_entries') <= Len(audit_entries) + 1]_vars

\* C20 witness: one mutating call is in the ledger, and another whose Stripe
\* call also returned is not, its handler having been cancelled.
C20_Witness ==
    /\ Len(audit_entries) = 1
    /\ Cardinality(Completed) = 1
    /\ Cardinality(Succeeded) = 2
    /\ \E r \in Succeeded : pc[r] = "cancelled"

====
